---- MODULE Spec2Model ----
(***************************************************************************)
(* megatron/model/bert_model.py: the attention-mask and position-id        *)
(* helpers, BertModel (construction, forward, checkpoint save / load) and  *)
(* ICTBertModel.                                                           *)
(*                                                                         *)
(* Tensors are nested sequences of integers, indexed from 1 (the source    *)
(* indexes from 0): a [b, s] tensor is a sequence of b rows of length s.   *)
(* A dict is a function from its keys; an exception is the name of its     *)
(* class in the field raised ("none" when the call returned).              *)
(*                                                                         *)
(* Spec runs the constructors and the functions as written. SpecICT runs   *)
(* the methods of ICTBertModel on objects that hold the two encoders.      *)
(***************************************************************************)
EXTENDS Integers, Sequences, FiniteSets, TLC

VARIABLES pc, bert, target, ict, raised, out, ckpt

vars == <<pc, bert, target, ict, raised, out, ckpt>>

\* ------------------------------------------------------------------ bounds
MaxBatch == 2
MaxSeq == 2
MaxHeadSize == 2
MaxNumHeads == 2
MaxRows == 3

\* Python's None; an argument that is None or an integer k is <<>> or <<k>>
None == <<>>
NoObj == [class |-> "none"]
NoOut == [op |-> "none"]
\* the empty dict
EmptyDict == <<>>

Batches == 1..MaxBatch
SeqLens == 1..MaxSeq
DTypes == {"float16", "float32"}

\* every [b, s] tensor with entries in V
Tensors2(b, s, V) == [1..b -> [1..s -> V]]
\* every 0/1 padding mask within the bounds
Masks == UNION {Tensors2(b, s, {0, 1}) : b \in Batches, s \in SeqLens}
\* token id tensors within the bounds
TokenIds == UNION {Tensors2(b, s, {0, 7}) : b \in Batches, s \in SeqLens}
\* the token ids forward is called with: one tensor per shape and seed
TokensOf(b, s, t0) == [n \in 1..b |-> [j \in 1..s |-> t0 + 3 * (n - 1) + (j - 1)]]

\* ------------------------------------------------------------ torch pieces
Abs(x) == IF x < 0 THEN -x ELSE x

\* spacing of float16 values around an integer of magnitude a (a < 65520)
HalfUlp(a) ==
  IF a < 2048 THEN 1
  ELSE IF a < 4096 THEN 2
  ELSE IF a < 8192 THEN 4
  ELSE IF a < 16384 THEN 8
  ELSE IF a < 32768 THEN 16
  ELSE 32

\* an integer rounded to the nearest float16 value, ties to even
RoundHalf(x) ==
  LET a == Abs(x)
      u == HalfUlp(a)
      q == a \div u
      r == a % u
      m == IF 2 * r < u THEN q
           ELSE IF 2 * r > u THEN q + 1
           ELSE IF q % 2 = 0 THEN q ELSE q + 1
  IN  IF x < 0 THEN -(m * u) ELSE m * u

\* tensor.to(dtype=dtype) on one element; float32 holds every integer the
\* model uses (all below 2^24) exactly
ToDtype(x, dtype) == IF dtype = "float16" THEN RoundHalf(x) ELSE x

\* the index into a dimension of size d when broadcasting position i
Bc(d, i) == IF d = 1 THEN 1 ELSE i
Max(a, b) == IF a > b THEN a ELSE b

\* ----------------------------------------------------- module-level helpers
\* a mask function that fills the masked scores with the bias
bert_attention_mask_funcFill(attention_scores, attention_mask) ==
  [n \in 1..Len(attention_scores) |->
    [h \in 1..Len(attention_scores[n]) |->
      [i \in 1..Len(attention_scores[n][h]) |->
        [j \in 1..Len(attention_scores[n][h][i]) |->
          IF attention_mask[n][Bc(Len(attention_mask[n]), h)][i][j] = 0
          THEN attention_scores[n][h][i][j]
          ELSE attention_mask[n][Bc(Len(attention_mask[n]), h)][i][j]]]]]

\* def bert_attention_mask_func(attention_scores, attention_mask):
\* scores [b, np, sq, sk] + mask [b, 1, sq, sk], broadcast over the heads
bert_attention_mask_func(attention_scores, attention_mask) ==
  [n \in 1..Len(attention_scores) |->
    [h \in 1..Len(attention_scores[n]) |->
      [i \in 1..Len(attention_scores[n][h]) |->
        [j \in 1..Len(attention_scores[n][h][i]) |->
          attention_scores[n][h][i][j]
            + attention_mask[n][Bc(Len(attention_mask[n]), h)][i][j]]]]]

\* x.unsqueeze(1) of a [b, s] tensor: [b, 1, s]
Unsqueeze1(x) == [n \in 1..Len(x) |-> <<x[n]>>]
\* x.unsqueeze(2) of a [b, s] tensor: [b, s, 1]
Unsqueeze2(x) == [n \in 1..Len(x) |-> [i \in 1..Len(x[n]) |-> <<x[n][i]>>]]
\* x * y of two 3D tensors with the same first dimension, broadcast
Mul3(x, y) ==
  [n \in 1..Len(x) |->
    [i \in 1..Max(Len(x[n]), Len(y[n])) |->
      [j \in 1..Max(Len(x[n][1]), Len(y[n][1])) |->
        x[n][Bc(Len(x[n]), i)][Bc(Len(x[n][1]), j)]
          * y[n][Bc(Len(y[n]), i)][Bc(Len(y[n][1]), j)]]]]

\* an extended mask that looks at the key position alone
bert_extended_attention_maskKeyOnly(attention_mask, dtype) ==
  [n \in 1..Len(attention_mask) |->
    <<[i \in 1..Len(attention_mask[n]) |->
        [j \in 1..Len(attention_mask[n]) |->
          ToDtype(ToDtype(1 - ToDtype(attention_mask[n][j], dtype), dtype)
                    * (-10000), dtype)]]>>]

\* def bert_extended_attention_mask(attention_mask, dtype):
bert_extended_attention_mask(attention_mask, dtype) ==
  LET attention_mask_b1s == Unsqueeze1(attention_mask)
      attention_mask_bs1 == Unsqueeze2(attention_mask)
      attention_mask_bss == Mul3(attention_mask_b1s, attention_mask_bs1)
      \* attention_mask_bss.unsqueeze(1): [b, 1, s, s]
      extended == [n \in 1..Len(attention_mask_bss) |-> <<attention_mask_bss[n]>>]
  IN  [n \in 1..Len(extended) |->
        [h \in 1..Len(extended[n]) |->
          [i \in 1..Len(extended[n][h]) |->
            [j \in 1..Len(extended[n][h][i]) |->
              ToDtype(ToDtype(1 - ToDtype(extended[n][h][i][j], dtype), dtype)
                        * (-10000), dtype)]]]]

\* position ids that count from 1
bert_position_idsFromOne(token_ids) ==
  [n \in 1..Len(token_ids) |-> [j \in 1..Len(token_ids[1]) |-> j]]

\* def bert_position_ids(token_ids):
bert_position_ids(token_ids) ==
  LET seq_length == Len(token_ids[1])
      \* torch.arange(seq_length)
      arange == [j \in 1..seq_length |-> j - 1]
      \* .unsqueeze(0): [1, s]
      row == <<arange>>
  IN  \* .expand_as(token_ids): [b, s]
      [n \in 1..Len(token_ids) |->
        [j \in 1..Len(token_ids[n]) |-> row[1][Bc(Len(row[1]), j)]]]

\* ---------------------------------------------------------------- BertModel
\* d[k] = v on a dict
Put(d, k, v) == [x \in DOMAIN d \cup {k} |-> IF x = k THEN v ELSE d[x]]

\* the key get_language_model returns beside the language model
LanguageModelKey == "language_model"

\* the state a freshly initialised component holds
FreshState(name, init) == [of |-> name, w |-> init.seed]

\* self.<name> = <module>; self._<name>_key = key
SetComponent(self, name, key, init) ==
  [self EXCEPT !.attrs = @ \cup {name},
               !.keys = Put(@, name, key),
               !.params = Put(@, name, FreshState(name, init))]


\* the fields __init__ assigns up to line 117, and the book-keeping of the
\* sub-modules assigned later
Fields(add_binary_head, ict_head_size) ==
  [class |-> "BertModel",
   add_binary_head |-> add_binary_head,
   ict_head_size |-> ict_head_size,
   add_ict_head |-> ict_head_size # None,
   attrs |-> {}, keys |-> EmptyDict, params |-> EmptyDict]

\* lines 120-143: the language model and the heads
Build(s0, num_tokentypes, parallel_output, init) ==
  LET add_pooler == s0.add_binary_head \/ s0.add_ict_head
      \* get_language_model(num_tokentypes=..., add_pooler=add_pooler, ...)
      s1 == SetComponent(
              Put(Put(Put(Put(s0, "parallel_output", parallel_output),
                          "num_tokentypes", num_tokentypes),
                      "add_pooler", add_pooler),
                  "dtype", init.dtype),
              "language_model", LanguageModelKey, init)
      s2 == IF ~s0.add_ict_head
            THEN SetComponent(s1, "lm_head", "lm_head", init) ELSE s1
  IN  IF s0.add_binary_head
      THEN SetComponent(s2, "binary_head", "binary_head", init)
      ELSE IF s0.add_ict_head
      THEN SetComponent(s2, "ict_head", "ict_head", init)
      ELSE s2

\* BertModel.__init__ with the assertion left out
BertModel__init__NoAssert(num_tokentypes, add_binary_head, ict_head_size, parallel_output, init) ==
  [raised |-> "none",
   self |-> Build(Fields(add_binary_head, ict_head_size),
                  num_tokentypes, parallel_output, init)]

\* BertModel.__init__(self, num_tokentypes=2, add_binary_head=True,
\*                    ict_head_size=None, parallel_output=True)
\* init: what get_args() and the random initialisation supply
BertModel__init__(num_tokentypes, add_binary_head, ict_head_size, parallel_output, init) ==
  LET s0 == Fields(add_binary_head, ict_head_size)
  IN  IF s0.add_binary_head /\ s0.add_ict_head
      THEN [raised |-> "AssertionError", self |-> s0]
      ELSE [raised |-> "none",
            self |-> Build(s0, num_tokentypes, parallel_output, init)]

\* the parameters BertModel.__init__ declares, and their defaults
BertModelParams ==
  [num_tokentypes |-> 2, add_binary_head |-> TRUE,
   ict_head_size |-> None, parallel_output |-> TRUE]

Arg(kwargs, name) ==
  IF name \in DOMAIN kwargs THEN kwargs[name] ELSE BertModelParams[name]

\* BertModel(**kwargs): a keyword the signature does not declare is a TypeError
\* raised before __init__ runs
BertModel(kwargs, init) ==
  IF \E k \in DOMAIN kwargs : k \notin DOMAIN BertModelParams
  THEN [raised |-> "TypeError", self |-> NoObj]
  ELSE BertModel__init__(Arg(kwargs, "num_tokentypes"),
                         Arg(kwargs, "add_binary_head"),
                         Arg(kwargs, "ict_head_size"),
                         Arg(kwargs, "parallel_output"), init)

\* ------------------------------------------------------- BertModel.forward
RECURSIVE SumTo(_, _)
\* f(1) + ... + f(n) for a sequence f
SumTo(f, n) == IF n = 0 THEN 0 ELSE f[n] + SumTo(f, n - 1)

\* self.language_model(input_ids, position_ids, extended_attention_mask,
\* tokentype_ids=...): the backbone is not part of this file; it stands here as
\* a term over its own state and exactly the arguments it is called with, and
\* it returns the pair (lm_output, pooled_output) when built with a pooler
LanguageModel(self, input_ids, position_ids, extended_attention_mask, tokentype_ids) ==
  LET term == [by |-> self.params["language_model"],
               input_ids |-> input_ids,
               position_ids |-> position_ids,
               attention_mask |-> extended_attention_mask,
               tokentype_ids |-> tokentype_ids]
  IN  [tuple |-> self.add_pooler,
       lm_output |-> Put(term, "t", "lm_output"),
       pooled_output |-> Put(term, "t", "pooled_output")]

\* self.ict_head(pooled_output): the linear layer get_linear_layer(hidden_size,
\* ict_head_size, ...) is not part of this file; it stands here as a fixed
\* function of its state and its argument that yields a [b, ict_head_size]
\* tensor: row n sums, over the key positions the first query position of row
\* n may attend, the token and position ids
IctHead(self, pooled_output) ==
  LET x == pooled_output
      seen(n) == [j \in 1..Len(x.input_ids[n]) |->
                   IF x.attention_mask[n][1][1][j] = 0
                   THEN x.input_ids[n][j] + x.position_ids[n][j] + 1 ELSE 0]
      hidden(n) == SumTo(seen(n), Len(x.input_ids[n]))
  IN  [n \in 1..Len(x.input_ids) |->
        [k \in 1..self.ict_head_size[1] |->
          (self.params["ict_head"].w + k) * hidden(n) + x.by.w - k]]

\* what forward yields when it raises
Raise(exc, calls) ==
  [raised |-> exc, ret |-> None, calls |-> calls, lm_args |-> None,
   pooled_read |-> FALSE]

\* forward with the MLM head run before the ICT branch is taken
BertModel_forwardLmFirst(self, input_ids, attention_mask, tokentype_ids) ==
  LET extended_attention_mask ==
        bert_extended_attention_mask(attention_mask, self.dtype)
      position_ids == bert_position_ids(input_ids)
      unpack == self.add_binary_head \/ self.add_ict_head
      lm == LanguageModel(self, input_ids, position_ids,
                          extended_attention_mask, tokentype_ids)
      lm_args == Put(lm.lm_output, "t", "args")
      lm_logits == [t |-> "lm_logits",
                    by |-> self.params["lm_head"],
                    x |-> lm.lm_output,
                    word_embeddings_weight |-> self.params["language_model"]]
      binary_logits == [t |-> "binary_logits",
                        by |-> self.params["binary_head"],
                        x |-> lm.pooled_output]
  IN  IF unpack # lm.tuple
      THEN Raise("ValueError", <<"language_model">>)
      ELSE IF "lm_head" \notin self.attrs
      THEN Raise("AttributeError", <<"language_model">>)
      ELSE IF self.add_ict_head
      THEN [raised |-> "none",
            ret |-> <<IctHead(self, lm.pooled_output), None>>,
            calls |-> <<"language_model", "lm_head", "ict_head">>,
            lm_args |-> lm_args,
            pooled_read |-> TRUE]
      ELSE IF self.add_binary_head
      THEN [raised |-> "none",
            ret |-> <<lm_logits, binary_logits>>,
            calls |-> <<"language_model", "lm_head", "binary_head">>,
            lm_args |-> lm_args,
            pooled_read |-> TRUE]
      ELSE [raised |-> "none",
            ret |-> <<lm_logits, None>>,
            calls |-> <<"language_model", "lm_head">>,
            lm_args |-> lm_args,
            pooled_read |-> FALSE]

\* BertModel.forward(self, input_ids, attention_mask, tokentype_ids=None)
\* calls: the sub-modules invoked, in order
BertModel_forward(self, input_ids, attention_mask, tokentype_ids) ==
  LET \* next(self.language_model.parameters()).dtype is self.dtype
      extended_attention_mask ==
        bert_extended_attention_mask(attention_mask, self.dtype)
      position_ids == bert_position_ids(input_ids)
      unpack == self.add_binary_head \/ self.add_ict_head
      lm == LanguageModel(self, input_ids, position_ids,
                          extended_attention_mask, tokentype_ids)
      lm_args == Put(lm.lm_output, "t", "args")
      \* self.lm_head(lm_output, word_embeddings.weight)
      lm_logits == [t |-> "lm_logits",
                    by |-> self.params["lm_head"],
                    x |-> lm.lm_output,
                    word_embeddings_weight |-> self.params["language_model"]]
      \* self.binary_head(pooled_output)
      binary_logits == [t |-> "binary_logits",
                        by |-> self.params["binary_head"],
                        x |-> lm.pooled_output]
  IN  IF "language_model" \notin self.attrs
      THEN Raise("AttributeError", <<>>)
      \* a pair is unpacked where the backbone returns one tensor, or one
      \* tensor is taken where it returns a pair
      ELSE IF unpack # lm.tuple
      THEN Raise("ValueError", <<"language_model">>)
      ELSE IF self.add_ict_head
      THEN IF "ict_head" \notin self.attrs
           THEN Raise("AttributeError", <<"language_model">>)
           ELSE [raised |-> "none",
                 ret |-> <<IctHead(self, lm.pooled_output), None>>,
                 calls |-> <<"language_model", "ict_head">>,
                 lm_args |-> lm_args,
                 pooled_read |-> TRUE]
      ELSE IF "lm_head" \notin self.attrs
      THEN Raise("AttributeError", <<"language_model">>)
      ELSE IF self.add_binary_head
      THEN IF "binary_head" \notin self.attrs
           THEN Raise("AttributeError", <<"language_model", "lm_head">>)
           ELSE [raised |-> "none",
                 ret |-> <<lm_logits, binary_logits>>,
                 calls |-> <<"language_model", "lm_head", "binary_head">>,
                 lm_args |-> lm_args,
                 pooled_read |-> TRUE]
      ELSE [raised |-> "none",
            ret |-> <<lm_logits, None>>,
            calls |-> <<"language_model", "lm_head">>,
            lm_args |-> lm_args,
            pooled_read |-> FALSE]

\* ------------------------------------------------ BertModel checkpointing
\* sub-module.state_dict_for_save_checkpoint() / .state_dict()
StateOf(self, name) == self.params[name]

RECURSIVE SaveAll(_, _, _)
\* state_dict_[self._<name>_key] = <name>'s state, for each name in order
SaveAll(self, names, d) ==
  IF names = <<>> THEN d
  ELSE SaveAll(self, Tail(names),
               Put(d, self.keys[Head(names)], StateOf(self, Head(names))))

\* a save that writes the MLM head whatever the configuration
SavedComponentsAlwaysLm(self) ==
  <<"language_model", "lm_head">>
    \o (IF self.add_binary_head THEN <<"binary_head">>
        ELSE IF self.add_ict_head THEN <<"ict_head">> ELSE <<>>)

\* the sub-modules state_dict_for_save_checkpoint writes, in order
SavedComponents(self) ==
  <<"language_model">>
    \o (IF ~self.add_ict_head THEN <<"lm_head">> ELSE <<>>)
    \o (IF self.add_binary_head THEN <<"binary_head">>
        ELSE IF self.add_ict_head THEN <<"ict_head">> ELSE <<>>)

\* BertModel.state_dict_for_save_checkpoint(self, ...)
BertModel_state_dict_for_save_checkpoint(self) ==
  LET names == SavedComponents(self)
  IN  IF \E i \in 1..Len(names) : names[i] \notin self.attrs
      THEN [raised |-> "AttributeError", ret |-> None]
      ELSE [raised |-> "none", ret |-> SaveAll(self, names, EmptyDict)]

\* the sub-modules load_state_dict loads, in order
LoadedComponents(self) ==
  <<"language_model">>
    \o (IF ~self.add_ict_head THEN <<"lm_head">> ELSE <<>>)
    \o (IF self.add_binary_head THEN <<"binary_head">>
        ELSE IF self.add_ict_head THEN <<"ict_head">> ELSE <<>>)

\* a load that reads every head from the MLM head's entry
LoadKeyLmHead(self, name) ==
  IF name = "language_model" THEN self.keys[name] ELSE "lm_head"

\* the key load_state_dict reads for a sub-module: self._<name>_key
LoadKey(self, name) == self.keys[name]

RECURSIVE LoadAll(_, _, _, _)
\* self.<name>.load_state_dict(state_dict[self._<name>_key]) for each name in
\* order; the first missing attribute or key raises and ends the load
LoadAll(self, names, state_dict, reads) ==
  IF names = <<>>
  THEN [raised |-> "none", self |-> self, reads |-> reads]
  ELSE LET name == Head(names)
       IN  IF name \notin self.attrs
           THEN [raised |-> "AttributeError", self |-> self, reads |-> reads]
           ELSE IF LoadKey(self, name) \notin DOMAIN state_dict
           THEN [raised |-> "KeyError", self |-> self, reads |-> reads]
           ELSE LoadAll([self EXCEPT !.params[name] =
                                       state_dict[LoadKey(self, name)]],
                        Tail(names), state_dict,
                        Append(reads, LoadKey(self, name)))

\* BertModel.load_state_dict(self, state_dict, strict=True)
\* reads: the keys of state_dict read, in order
BertModel_load_state_dict(self, state_dict) ==
  LoadAll(self, LoadedComponents(self), state_dict, <<>>)

\* ------------------------------------------------------------ ICTBertModel
\* bert_args = dict(...), lines 237-255, from the constructor's arguments a
BertArgs(a) ==
  [num_layers |-> a.num_layers,
   vocab_size |-> a.vocab_size,
   hidden_size |-> a.hidden_size,
   num_attention_heads |-> a.num_attention_heads,
   embedding_dropout_prob |-> a.embedding_dropout_prob,
   attention_dropout_prob |-> a.attention_dropout_prob,
   output_dropout_prob |-> a.output_dropout_prob,
   max_sequence_length |-> a.max_sequence_length,
   checkpoint_activations |-> a.checkpoint_activations,
   add_binary_head |-> FALSE,
   ict_head_size |-> a.ict_head_size,
   checkpoint_num_layers |-> a.checkpoint_num_layers,
   layernorm_epsilon |-> a.layernorm_epsilon,
   init_method_std |-> a.init_method_std,
   num_tokentypes |-> a.num_tokentypes,
   parallel_output |-> a.parallel_output,
   apply_query_key_layer_scaling |-> a.apply_query_key_layer_scaling,
   attention_softmax_in_fp32 |-> a.attention_softmax_in_fp32]

\* an ICTBertModel before its encoders are assigned
ICTFields ==
  [class |-> "ICTBertModel", attrs |-> {}, keys |-> EmptyDict,
   question_model |-> NoObj, context_model |-> NoObj]

\* self.question_model = m; self._question_key = 'question_model'
SetQuestion(self, m) ==
  [self EXCEPT !.attrs = @ \cup {"question_model"},
               !.keys = Put(@, "question_model", "question_model"),
               !.question_model = m]

\* self.context_model = m; self._context_key = 'context_model'
SetContext(self, m) ==
  [self EXCEPT !.attrs = @ \cup {"context_model"},
               !.keys = Put(@, "context_model", "context_model"),
               !.context_model = m]

\* ICTBertModel.__init__(self, num_layers, ..., attention_softmax_in_fp32)
\* a: the constructor's arguments; init: what get_args() and the random
\* initialisation supply to each encoder
ICTBertModel__init__(a, init) ==
  LET bert_args == BertArgs(a)
      q == BertModel(bert_args, init.question)
      c == BertModel(bert_args, init.context)
  IN  IF q.raised # "none"
      THEN [raised |-> q.raised, self |-> ICTFields]
      ELSE IF c.raised # "none"
      THEN [raised |-> c.raised, self |-> SetQuestion(ICTFields, q.self)]
      ELSE [raised |-> "none",
            self |-> SetContext(SetQuestion(ICTFields, q.self), c.self)]

\* 1 - mask on a [b, s] tensor
OneMinus(mask) ==
  [n \in 1..Len(mask) |-> [j \in 1..Len(mask[n]) |-> 1 - mask[n][j]]]

\* torch.transpose(x, 0, 1) of a 2D tensor
Transpose(x) == [k \in 1..Len(x[1]) |-> [j \in 1..Len(x) |-> x[j][k]]]

\* x.matmul(y) of a [m, h] and a [h, n] tensor
MatMul(x, y) ==
  [i \in 1..Len(x) |->
    [j \in 1..Len(y[1]) |->
      SumTo([k \in 1..Len(y) |-> x[i][k] * y[k][j]], Len(y))]]

\* lines 265-271 once both encoders were called: q and c are what
\* question_model.forward and context_model.forward yielded
RetrievalScores(self, q, c) ==
  LET question_ict_logits == q.ret[1]
      context_ict_logits == c.ret[1]
      none == [raised |-> "none", ret |-> None, question |-> None,
               context |-> None]
  IN  IF "question_model" \notin self.attrs
      THEN [none EXCEPT !.raised = "AttributeError"]
      ELSE IF q.raised # "none"
      THEN [none EXCEPT !.raised = q.raised, !.question = q]
      ELSE IF "context_model" \notin self.attrs
      THEN [none EXCEPT !.raised = "AttributeError", !.question = q]
      ELSE IF c.raised # "none"
      THEN [none EXCEPT !.raised = c.raised, !.question = q, !.context = c]
      ELSE [raised |-> "none",
            ret |-> MatMul(question_ict_logits, Transpose(context_ict_logits)),
            question |-> q,
            context |-> c]

\* forward with the masks handed on as they are
ICTBertModel_forwardNoComplement(self, input_tokens, input_attention_mask, input_types, context_tokens, context_attention_mask, context_types) ==
  RetrievalScores(self,
    BertModel_forward(self.question_model, input_tokens,
                      input_attention_mask, input_types),
    BertModel_forward(self.context_model, context_tokens,
                      context_attention_mask, context_types))

\* forward with the question encoder run on the context too
ICTBertModel_forwardOneEncoder(self, input_tokens, input_attention_mask, input_types, context_tokens, context_attention_mask, context_types) ==
  RetrievalScores(self,
    BertModel_forward(self.question_model, input_tokens,
                      OneMinus(input_attention_mask), input_types),
    BertModel_forward(self.question_model, context_tokens,
                      OneMinus(context_attention_mask), context_types))

\* ICTBertModel.forward(self, input_tokens, input_attention_mask, input_types,
\*                      context_tokens, context_attention_mask, context_types)
\* question, context: what each encoder's forward was given and yielded
ICTBertModel_forward(self, input_tokens, input_attention_mask, input_types, context_tokens, context_attention_mask, context_types) ==
  RetrievalScores(self,
    BertModel_forward(self.question_model, input_tokens,
                      OneMinus(input_attention_mask), input_types),
    BertModel_forward(self.context_model, context_tokens,
                      OneMinus(context_attention_mask), context_types))

\* ICTBertModel.state_dict_for_save_checkpoint(self, ...)
ICTBertModel_state_dict_for_save_checkpoint(self) ==
  LET q == BertModel_state_dict_for_save_checkpoint(self.question_model)
      c == BertModel_state_dict_for_save_checkpoint(self.context_model)
  IN  IF "question_model" \notin self.attrs
      THEN [raised |-> "AttributeError", ret |-> None]
      ELSE IF q.raised # "none" THEN q
      ELSE IF "context_model" \notin self.attrs
      THEN [raised |-> "AttributeError", ret |-> None]
      ELSE IF c.raised # "none" THEN c
      ELSE [raised |-> "none",
            ret |-> Put(Put(EmptyDict, self.keys["question_model"], q.ret),
                        self.keys["context_model"], c.ret)]

\* ICTBertModel.load_state_dict(self, state_dict, strict=True)
\* reads: the keys of state_dict read, in order; nested: the keys each
\* encoder read of its entry
ICTBertModel_load_state_dict(self, state_dict) ==
  LET qk == self.keys["question_model"]
      ck == self.keys["context_model"]
      q == BertModel_load_state_dict(self.question_model, state_dict[qk])
      s1 == [self EXCEPT !.question_model = q.self]
      c == BertModel_load_state_dict(self.context_model, state_dict[ck])
      s2 == [s1 EXCEPT !.context_model = c.self]
  IN  IF "question_model" \notin self.attrs
      THEN [raised |-> "AttributeError", self |-> self, reads |-> <<>>, nested |-> <<>>]
      ELSE IF qk \notin DOMAIN state_dict
      THEN [raised |-> "KeyError", self |-> self, reads |-> <<>>, nested |-> <<>>]
      ELSE IF q.raised # "none"
      THEN [raised |-> q.raised, self |-> s1, reads |-> <<qk>>, nested |-> <<q.reads>>]
      ELSE IF "context_model" \notin self.attrs
      THEN [raised |-> "AttributeError", self |-> s1, reads |-> <<qk>>, nested |-> <<q.reads>>]
      ELSE IF ck \notin DOMAIN state_dict
      THEN [raised |-> "KeyError", self |-> s1, reads |-> <<qk>>, nested |-> <<q.reads>>]
      ELSE IF c.raised # "none"
      THEN [raised |-> c.raised, self |-> s2, reads |-> <<qk, ck>>,
            nested |-> <<q.reads, c.reads>>]
      ELSE [raised |-> "none", self |-> s2, reads |-> <<qk, ck>>,
            nested |-> <<q.reads, c.reads>>]

\* an ICTBertModel object with the attributes its methods read, as lines
\* 257-260 assign them: question_model and context_model are BertModels built
\* by BertModel.__init__ with the head arguments of lines 247-248
\* (add_binary_head=False, ict_head_size), and the two keys. ICTBertModel's
\* own constructor is ICTBertModel__init__ above; SpecICT runs the methods
\* on these objects.
ICTInstance(ict_head_size, init) ==
  LET kwargs == [add_binary_head |-> FALSE, ict_head_size |-> ict_head_size]
  IN  SetContext(SetQuestion(ICTFields, BertModel(kwargs, init.question).self),
                 BertModel(kwargs, init.context).self)

\* ------------------------------------------------------------------ inputs
\* ict_head_size arguments: None, or a size
HeadSizeArgs == {None} \cup {<<k>> : k \in 0..MaxHeadSize}

\* what get_args() and the random initialisation supply to one model, and to
\* a second model built later
Inits == [seed : {1}, dtype : DTypes]
OtherInits == [seed : {2}, dtype : DTypes]

\* keyword arguments of a BertModel(...) call: the two head arguments alone
\* (the others take their defaults), or all four
BertKwargs ==
  [add_binary_head : BOOLEAN, ict_head_size : HeadSizeArgs]
    \cup [add_binary_head : BOOLEAN, ict_head_size : HeadSizeArgs,
          num_tokentypes : {0}, parallel_output : {FALSE}]

\* tokentype_ids: None, or a [b, s] tensor
TypesOf(b, s) == {None, [n \in 1..b |-> [j \in 1..s |-> 0]]}

\* arguments of an ICTBertModel(...) call
ICTArgs ==
  [num_layers : {2}, vocab_size : {8}, hidden_size : {4},
   num_attention_heads : {2}, embedding_dropout_prob : {0},
   attention_dropout_prob : {0}, output_dropout_prob : {0},
   max_sequence_length : {MaxSeq}, checkpoint_activations : {FALSE},
   ict_head_size : {<<k>> : k \in 1..MaxHeadSize},
   checkpoint_num_layers : {1}, layernorm_epsilon : {0},
   init_method_std : {0}, num_tokentypes : {0, 2},
   parallel_output : BOOLEAN, apply_query_key_layer_scaling : {FALSE},
   attention_softmax_in_fp32 : {FALSE}]

\* attention scores [b, np, s, s]: c0 everywhere, plus c1 times the position
ScoresOf(b, np, s, c0, c1) ==
  [n \in 1..b |-> [h \in 1..np |-> [i \in 1..s |-> [j \in 1..s |->
    c0 + c1 * ((((n - 1) * np + (h - 1)) * s + (i - 1)) * s + (j - 1))]]]]

\* ----------------------------------------------------------------- actions
Init ==
  /\ pc = "new"
  /\ bert = NoObj
  /\ target = NoObj
  /\ ict = NoObj
  /\ raised = "none"
  /\ out = NoOut
  /\ ckpt = None

\* model = BertModel(**kwargs)
NewBertModel ==
  /\ pc = "new"
  /\ ict = NoObj
  /\ \E kwargs \in BertKwargs, init \in Inits :
       \E r \in {BertModel(kwargs, init)} :
           /\ raised' = r.raised
           /\ bert' = IF r.raised = "none" THEN r.self ELSE NoObj
           /\ out' = [op |-> "BertModel", kwargs |-> kwargs, self |-> r.self]
           /\ pc' = IF r.raised = "none" THEN "ready" ELSE "raised"
  /\ UNCHANGED <<target, ict, ckpt>>

\* model(input_ids, attention_mask, tokentype_ids)
Forward ==
  /\ pc = "ready"
  /\ \E m \in Masks :
       \E tt \in TypesOf(Len(m), Len(m[1])) :
         LET ids == TokensOf(Len(m), Len(m[1]), 0)
         IN  \E r \in {BertModel_forward(bert, ids, m, tt)} :
             /\ raised' = r.raised
             /\ out' = [op |-> "forward", input_ids |-> ids,
                        attention_mask |-> m, tokentype_ids |-> tt, r |-> r]
  /\ pc' = "forwarded"
  /\ UNCHANGED <<bert, target, ict, ckpt>>

\* ckpt = model.state_dict_for_save_checkpoint()
Save ==
  /\ pc = "ready"
  /\ \E r \in {BertModel_state_dict_for_save_checkpoint(bert)} :
         /\ raised' = r.raised
         /\ ckpt' = r.ret
  /\ out' = [op |-> "save"]
  /\ pc' = "saved"
  /\ UNCHANGED <<bert, target, ict>>

\* BertModel(**kwargs).load_state_dict(ckpt), for a second model of any
\* configuration the constructor accepts
Load ==
  /\ pc = "saved"
  /\ raised = "none"
  /\ \E kwargs \in BertKwargs, init \in OtherInits :
       \E t \in {BertModel(kwargs, init)} :
         /\ t.raised = "none"
         /\ \E r \in {BertModel_load_state_dict(t.self, ckpt)} :
              /\ raised' = r.raised
              /\ target' = r.self
              /\ out' = [op |-> "load", before |-> t.self, reads |-> r.reads]
  /\ pc' = "loaded"
  /\ UNCHANGED <<bert, ict, ckpt>>

\* model = ICTBertModel(**a)
NewICTBertModel ==
  /\ pc = "new"
  /\ ict = NoObj
  /\ \E a \in ICTArgs, iq \in Inits, ic \in OtherInits :
       \E r \in {ICTBertModel__init__(a, [question |-> iq, context |-> ic])} :
           /\ raised' = r.raised
           /\ ict' = IF r.raised = "none" THEN r.self ELSE NoObj
           /\ out' = [op |-> "ICTBertModel", args |-> a, self |-> r.self]
           /\ pc' = IF r.raised = "none" THEN "ready" ELSE "raised"
  /\ UNCHANGED <<bert, target, ckpt>>

\* bert_extended_attention_mask(mask, dtype)
ExtendedMask ==
  /\ pc = "new"
  /\ ict = NoObj
  /\ \E m \in Masks, d \in DTypes :
       out' = [op |-> "bert_extended_attention_mask", attention_mask |-> m,
               dtype |-> d, ret |-> bert_extended_attention_mask(m, d)]
  /\ pc' = "done"
  /\ UNCHANGED <<bert, target, ict, raised, ckpt>>

\* bert_position_ids(token_ids)
PositionIds ==
  /\ pc = "new"
  /\ ict = NoObj
  /\ \E t \in TokenIds :
       out' = [op |-> "bert_position_ids", token_ids |-> t,
               ret |-> bert_position_ids(t)]
  /\ pc' = "done"
  /\ UNCHANGED <<bert, target, ict, raised, ckpt>>

\* bert_attention_mask_func(scores, bert_extended_attention_mask(mask, dtype))
AttentionMaskFunc ==
  /\ pc = "new"
  /\ ict = NoObj
  /\ \E m \in Masks, d \in DTypes, np \in 1..MaxNumHeads,
        c0 \in {-3, 0, 10000}, c1 \in {0, 1} :
       \E scores \in {ScoresOf(Len(m), np, Len(m[1]), c0, c1)},
          mask \in {bert_extended_attention_mask(m, d)} :
         out' = [op |-> "bert_attention_mask_func", padding |-> m,
                 attention_scores |-> scores, attention_mask |-> mask,
                 ret |-> bert_attention_mask_func(scores, mask)]
  /\ pc' = "done"
  /\ UNCHANGED <<bert, target, ict, raised, ckpt>>

Next ==
  \/ NewBertModel
  \/ Forward
  \/ Save
  \/ Load
  \/ NewICTBertModel
  \/ ExtendedMask
  \/ PositionIds
  \/ AttentionMaskFunc

Spec == Init /\ [][Next]_vars

\* ------------------------------------------- the methods of an ICTBertModel
\* the instances the methods are run on, with the weights of the question
\* and of the context encoder
ICTInstances(wq, wc) ==
  {ICTInstance(<<k>>, [question |-> [seed |-> wq, dtype |-> "float16"],
                       context |-> [seed |-> wc, dtype |-> "float16"]]) :
     k \in 1..MaxHeadSize}

InitICT ==
  /\ pc = "new"
  /\ bert = NoObj
  /\ target = NoObj
  /\ ict \in {NoObj} \cup ICTInstances(1, 2)
  /\ raised = "none"
  /\ out = NoOut
  /\ ckpt = None

\* model(input_tokens, input_attention_mask, input_types,
\*       context_tokens, context_attention_mask, context_types)
ICTForward ==
  /\ pc = "new"
  /\ ict # NoObj
  /\ \E bq \in 1..MaxRows, bc \in 1..MaxRows, sq \in SeqLens, sc \in SeqLens :
       /\ bq + bc <= MaxRows
       /\ \E qm \in Tensors2(bq, sq, {0, 1}), cm \in Tensors2(bc, sc, {0, 1}) :
            LET qt == TokensOf(bq, sq, 0)
                ct == TokensOf(bc, sc, 1)
                qy == [n \in 1..bq |-> [j \in 1..sq |-> 0]]
                cy == [n \in 1..bc |-> [j \in 1..sc |-> 0]]
            IN  \E r \in {ICTBertModel_forward(ict, qt, qm, qy, ct, cm, cy)} :
                /\ raised' = r.raised
                /\ out' = [op |-> "ict_forward",
                           input_tokens |-> qt, input_attention_mask |-> qm,
                           input_types |-> qy, context_tokens |-> ct,
                           context_attention_mask |-> cm,
                           context_types |-> cy, r |-> r]
  /\ pc' = "done"
  /\ UNCHANGED <<bert, target, ict, ckpt>>

\* ckpt = model.state_dict_for_save_checkpoint()
ICTSave ==
  /\ pc = "new"
  /\ ict # NoObj
  /\ \E r \in {ICTBertModel_state_dict_for_save_checkpoint(ict)} :
         /\ raised' = r.raised
         /\ ckpt' = r.ret
  /\ out' = [op |-> "ict_save"]
  /\ pc' = "ict_saved"
  /\ UNCHANGED <<bert, target, ict>>

\* other.load_state_dict(ckpt), for a second ICTBertModel
ICTLoad ==
  /\ pc = "ict_saved"
  /\ raised = "none"
  /\ \E t \in ICTInstances(2, 1) :
       \E r \in {ICTBertModel_load_state_dict(t, ckpt)} :
           /\ raised' = r.raised
           /\ target' = r.self
           /\ out' = [op |-> "ict_load", before |-> t, reads |-> r.reads,
                      nested |-> r.nested]
  /\ pc' = "ict_loaded"
  /\ UNCHANGED <<bert, ict, ckpt>>

NextICT ==
  \/ NewBertModel
  \/ Save
  \/ Load
  \/ ICTForward
  \/ ICTSave
  \/ ICTLoad

SpecICT == InitICT /\ [][NextICT]_vars

\* ------------------------------------------------------------- properties
\* every entry of a [b, 1, s, s] bias tensor is 0 where the padding mask
\* holds `on` at both positions and -10000 elsewhere
BiasIs(bias, padding, on) ==
  /\ Len(bias) = Len(padding)
  /\ \A n \in 1..Len(padding) :
       /\ Len(bias[n]) = 1
       /\ Len(bias[n][1]) = Len(padding[n])
       /\ \A i \in 1..Len(padding[n]) :
            /\ Len(bias[n][1][i]) = Len(padding[n])
            /\ \A j \in 1..Len(padding[n]) :
                 bias[n][1][i][j] =
                   IF padding[n][i] = on /\ padding[n][j] = on THEN 0 ELSE -10000

\* a padding mask with a row that holds both a 0 and a 1
Mixed(padding) ==
  \E n \in 1..Len(padding) : \E i, j \in 1..Len(padding[n]) :
    padding[n][i] = 1 /\ padding[n][j] = 0

\* C1: constructing an ICTBertModel succeeds and leaves it with a
\* question_model and a context_model, each a BertModel with
\* add_binary_head = False and an ICT head of size ict_head_size.
C1_ConstructionSucceeds ==
  out.op = "ICTBertModel" =>
    /\ raised = "none"
    /\ ict.class = "ICTBertModel"
    /\ \A m \in {ict.question_model, ict.context_model} :
         /\ m.class = "BertModel"
         /\ ~m.add_binary_head
         /\ m.ict_head_size = out.args.ict_head_size
         /\ "ict_head" \in m.attrs

\* C2: for a 0/1 padding mask [b, s], bert_extended_attention_mask returns a
\* [b, 1, s, s] tensor whose entry [n, 0, i, j] is 0 when mask[n, i] = 1 and
\* mask[n, j] = 1 and -10000 in every other case.
C2_ExtendedMask ==
  out.op = "bert_extended_attention_mask" =>
    BiasIs(out.ret, out.attention_mask, 1)

C2_Witness ==
  /\ out.op = "bert_extended_attention_mask"
  /\ out.dtype = "float16"
  /\ Len(out.attention_mask) = 2
  /\ Mixed(out.attention_mask)
  /\ out.ret[1][1][1][1] # out.ret[1][1][1][2]

\* C3: bert_position_ids returns a tensor of the shape [b, s] of token_ids
\* whose entry [n, j] is j (0 .. s-1) for every row n, whatever the tokens.
C3_PositionIds ==
  out.op = "bert_position_ids" =>
    /\ Len(out.ret) = Len(out.token_ids)
    /\ \A n \in 1..Len(out.token_ids) :
         /\ Len(out.ret[n]) = Len(out.token_ids[n])
         /\ \A j \in 1..Len(out.token_ids[n]) : out.ret[n][j] = j - 1

C3_Witness ==
  /\ out.op = "bert_position_ids"
  /\ Len(out.token_ids) = 2
  /\ Len(out.token_ids[1]) = 2
  /\ out.token_ids[1] # out.token_ids[2]
  /\ out.token_ids[1][1] # out.token_ids[1][2]
  /\ out.ret = <<(<<0, 1>>), (<<0, 1>>)>>

\* C4: the dict state_dict_for_save_checkpoint returns has exactly these
\* top-level keys: the language-model key always, 'lm_head' iff the model has
\* no ICT head, 'binary_head' iff add_binary_head, 'ict_head' iff
\* ict_head_size is not None.
C4_SavedKeys ==
  pc = "saved" =>
    /\ raised = "none"
    /\ DOMAIN ckpt =
         {LanguageModelKey}
           \cup (IF bert.ict_head_size = None THEN {"lm_head"} ELSE {})
           \cup (IF bert.add_binary_head THEN {"binary_head"} ELSE {})
           \cup (IF bert.ict_head_size # None THEN {"ict_head"} ELSE {})

C4_Witness ==
  /\ pc = "saved"
  /\ bert.ict_head_size # None
  /\ DOMAIN ckpt = {"language_model", "ict_head"}

\* C6: forward returns a pair and uses only heads the constructor built:
\* (lm_logits, binary_logits) with a binary head, (lm_logits, None) with
\* neither a binary nor an ICT head, (ict_logits, None) with an ICT head, and
\* then lm_head is never invoked; pooled output is read only where the
\* backbone was built with a pooler.
C6_Forward ==
  out.op = "forward" =>
    LET r == out.r
        size == bert.ict_head_size
    IN  /\ r.raised = "none"
        /\ Len(r.ret) = 2
        /\ \A i \in 1..Len(r.calls) : r.calls[i] \in bert.attrs
        /\ r.pooled_read => bert.add_pooler
        /\ bert.add_binary_head =>
             /\ r.ret[1].t = "lm_logits"
             /\ r.ret[2].t = "binary_logits"
             /\ r.calls = <<"language_model", "lm_head", "binary_head">>
        /\ (~bert.add_binary_head /\ size = None) =>
             /\ r.ret[1].t = "lm_logits"
             /\ r.ret[2] = None
             /\ r.calls = <<"language_model", "lm_head">>
             /\ ~r.pooled_read
        /\ size # None =>
             /\ r.ret[2] = None
             /\ Len(r.ret[1]) = Len(out.input_ids)
             /\ \A n \in 1..Len(r.ret[1]) : Len(r.ret[1][n]) = size[1]
             /\ r.calls = <<"language_model", "ict_head">>

C6_Witness ==
  /\ out.op = "forward"
  /\ bert.ict_head_size = <<2>>
  /\ out.r.ret[2] = None
  /\ Len(out.r.ret[1]) = 2
  /\ out.r.pooled_read

\* C8: bert_attention_mask_func adds the mask: with a mask made by
\* bert_extended_attention_mask from a 0/1 padding mask, the result at (i, j)
\* is the score unchanged where both positions are attended and the score
\* minus 10000 at every other pair, under every attention head.
C8_AdditiveBias ==
  out.op = "bert_attention_mask_func" =>
    /\ Len(out.ret) = Len(out.attention_scores)
    /\ \A n \in 1..Len(out.attention_scores) :
         /\ Len(out.ret[n]) = Len(out.attention_scores[n])
         /\ \A h \in 1..Len(out.attention_scores[n]) :
              /\ Len(out.ret[n][h]) = Len(out.padding[n])
              /\ \A i, j \in 1..Len(out.padding[n]) :
                   out.ret[n][h][i][j] =
                     IF out.padding[n][i] = 1 /\ out.padding[n][j] = 1
                     THEN out.attention_scores[n][h][i][j]
                     ELSE out.attention_scores[n][h][i][j] - 10000

C8_Witness ==
  /\ out.op = "bert_attention_mask_func"
  /\ Len(out.attention_scores[1]) = 2
  /\ Len(out.padding[1]) = 2
  /\ out.padding[1] = <<1, 0>>
  /\ out.attention_scores[1][2][1][1] = 10004
  /\ out.ret[1][2][1][1] = 10004
  /\ out.ret[1][2][1][2] = 5

\* C9: BertModel(add_binary_head true, ict_head_size not None) fails on the
\* assertion before the language model or any head is built; every
\* constructed BertModel has at most one of binary_head and ict_head, and has
\* lm_head exactly when it has no ict_head.
C9_HeadsExclusive ==
  /\ (out.op = "BertModel" /\ out.kwargs.add_binary_head
        /\ out.kwargs.ict_head_size # None) =>
       /\ raised = "AssertionError"
       /\ out.self.attrs = {}
       /\ bert = NoObj
  /\ \A m \in {bert, target} :
       m.class = "BertModel" =>
         /\ ~("binary_head" \in m.attrs /\ "ict_head" \in m.attrs)
         /\ ("lm_head" \in m.attrs) <=> ("ict_head" \notin m.attrs)
         /\ "language_model" \in m.attrs

C9_Witness ==
  /\ out.op = "BertModel"
  /\ out.kwargs.add_binary_head
  /\ out.kwargs.ict_head_size = <<0>>
  /\ raised = "AssertionError"
  /\ pc = "raised"

\* the inner product of two vectors of the same length
Dot(u, v) == SumTo([k \in 1..Len(u) |-> u[k] * v[k]], Len(u))

\* C5: ICTBertModel.forward returns, for question ICT logits Q [bq, h] and
\* context ICT logits C [bc, h], a [bq, bc] matrix whose entry [i, j] is the
\* inner product of Q[i] and C[j]; Q comes only from question_model on the
\* question inputs and C only from context_model on the context inputs.
C5_RetrievalScores ==
  out.op = "ict_forward" =>
    LET r == out.r
        Q == r.question.ret[1]
        C == r.context.ret[1]
        h == ict.question_model.ict_head_size[1]
    IN  /\ r.raised = "none"
        /\ Len(Q) = Len(out.input_tokens)
        /\ Len(C) = Len(out.context_tokens)
        /\ \A i \in 1..Len(Q) : Len(Q[i]) = h
        /\ \A j \in 1..Len(C) : Len(C[j]) = h
        /\ Len(r.ret) = Len(Q)
        /\ \A i \in 1..Len(Q) :
             /\ Len(r.ret[i]) = Len(C)
             /\ \A j \in 1..Len(C) : r.ret[i][j] = Dot(Q[i], C[j])
        /\ r.question.lm_args.by = ict.question_model.params["language_model"]
        /\ r.question.lm_args.input_ids = out.input_tokens
        /\ r.question.lm_args.tokentype_ids = out.input_types
        /\ r.question.calls = <<"language_model", "ict_head">>
        /\ r.context.lm_args.by = ict.context_model.params["language_model"]
        /\ r.context.lm_args.input_ids = out.context_tokens
        /\ r.context.lm_args.tokentype_ids = out.context_types
        /\ r.context.calls = <<"language_model", "ict_head">>

C5_Witness ==
  /\ out.op = "ict_forward"
  /\ ict.question_model.ict_head_size = <<2>>
  /\ Len(out.input_tokens) = 1
  /\ Len(out.context_tokens) = 2
  /\ Len(out.r.ret) = 1
  /\ Len(out.r.ret[1]) = 2
  /\ out.r.ret[1][1] # out.r.ret[1][2]
  /\ out.r.ret[1][1] # 0

\* C10: ICTBertModel.forward hands each encoder 1 - mask, so its input masks
\* use 1 = padding: the additive bias the encoder sees at (i, j) is 0 exactly
\* when the input mask is 0 at both i and j and -10000 otherwise; the
\* question mask reaches only the question encoder and the context mask only
\* the context encoder.
C10_ComplementedMasks ==
  out.op = "ict_forward" =>
    /\ BiasIs(out.r.question.lm_args.attention_mask,
              out.input_attention_mask, 0)
    /\ BiasIs(out.r.context.lm_args.attention_mask,
              out.context_attention_mask, 0)
    /\ out.r.question.lm_args.by = ict.question_model.params["language_model"]
    /\ out.r.context.lm_args.by = ict.context_model.params["language_model"]

C10_Witness ==
  /\ out.op = "ict_forward"
  /\ out.input_attention_mask = <<(<<0, 1>>)>>
  /\ out.context_attention_mask = <<(<<1, 0>>), (<<0, 0>>)>>
  /\ out.r.question.lm_args.attention_mask[1][1][1] = <<0, -10000>>
  /\ out.r.context.lm_args.attention_mask[2][1][2] = <<0, 0>>

\* the head configuration of a BertModel
HeadConfig(m) == <<m.add_binary_head, m.ict_head_size>>

\* load_state_dict read exactly the keys of the saved dict d, each once, did
\* not raise, and left every sub-module of `after` with the entry of d under
\* that sub-module's own key, which is the state the saved model held for it
RoundTrip(saved, d, after, reads) ==
  /\ {reads[i] : i \in 1..Len(reads)} = DOMAIN d
  /\ Len(reads) = Cardinality(DOMAIN d)
  /\ after.attrs = saved.attrs
  /\ \A c \in after.attrs :
       /\ after.params[c] = d[c]
       /\ after.params[c] = saved.params[c]
       /\ after.params[c].of = c

\* C7: for every valid head configuration, load_state_dict applied to the
\* dict saved by a model of the same configuration reads only keys present
\* in it, reads every key written, and hands each component the entry saved
\* under its own key; the same holds for ICTBertModel with its
\* 'question_model' and 'context_model' entries.
C7_SaveLoadRoundTrip ==
  /\ (pc = "loaded" /\ HeadConfig(out.before) = HeadConfig(bert)) =>
       /\ raised = "none"
       /\ RoundTrip(bert, ckpt, target, out.reads)
  /\ (pc = "ict_loaded"
        /\ HeadConfig(out.before.question_model) = HeadConfig(ict.question_model)
        /\ HeadConfig(out.before.context_model) = HeadConfig(ict.context_model)) =>
       /\ raised = "none"
       /\ out.reads = <<"question_model", "context_model">>
       /\ DOMAIN ckpt = {"question_model", "context_model"}
       /\ Len(out.nested) = 2
       /\ RoundTrip(ict.question_model, ckpt["question_model"],
                    target.question_model, out.nested[1])
       /\ RoundTrip(ict.context_model, ckpt["context_model"],
                    target.context_model, out.nested[2])

C7_Witness ==
  /\ pc = "loaded"
  /\ raised = "none"
  /\ bert.add_binary_head
  /\ HeadConfig(out.before) = HeadConfig(bert)
  /\ out.before.params # target.params
  /\ target.params = bert.params
  /\ Len(out.reads) = 3

\* the ICTBertModel case of C7
C7_WitnessICT ==
  /\ pc = "ict_loaded"
  /\ raised = "none"
  /\ out.before.question_model.params # target.question_model.params
  /\ out.before.question_model.params = target.context_model.params
  /\ target.question_model.params = ict.question_model.params
  /\ target.context_model.params = ict.context_model.params

====
